---- MODULE Spec2Model ----
(***************************************************************************)
(* Model of bluesky_queueserver_api/comm_threads.py: the thread-based      *)
(* messaging (ZMQ) and REST (HTTP) clients, the REST request dispatcher    *)
(* with its refresh-and-retry step, the authentication operations built on *)
(* it, and close()/__del__.  The base-class helpers the clients call       *)
(* (comm_base.py: _check_response, _prepare_request, _prepare_headers,     *)
(* _process_comm_exception, set_authorization_key, ...) are modelled from  *)
(* the written specification and from tests/test_comm.py.  Four           *)
(* specifications: Spec (one client and its operations), SpecModes (a      *)
(* thread-based and an asynchronous client given the same calls),          *)
(* SpecClose (close() and __del__ over the console monitor's settings) and *)
(* SpecThreads (two threads calling send_request on one REST client).      *)
(***************************************************************************)
EXTENDS Integers, Sequences, FiniteSets, TLC

(***************************************************************************)
(* Bounds of the model.                                                    *)
(***************************************************************************)
\* close() may be called this many times on one client object.
MaxCloses == 2

(***************************************************************************)
(* Python values.                                                          *)
(***************************************************************************)
\* Python's None where a string is expected (a token, a key, a timeout).
None == "None"

\* A decoded response payload: None, an int, a str, a sequence or a mapping.
\* Every payload is a record of the same shape; `keys` lists the keys a
\* mapping carries.
Payload(type, int, str, items, keys, success, msg, access_token, refresh_token) ==
    [type |-> type, int |-> int, str |-> str, items |-> items, keys |-> keys,
     success |-> success, msg |-> msg,
     access_token |-> access_token, refresh_token |-> refresh_token]

NoneResp == Payload("none", 0, "", <<>>, {}, FALSE, "", None, None)
IntResp(n) == Payload("int", n, "", <<>>, {}, FALSE, "", None, None)
StrResp(s) == Payload("str", 0, s, <<>>, {}, FALSE, "", None, None)
SeqResp(items) == Payload("seq", 0, "", items, {}, FALSE, "", None, None)
\* {}
EmptyMap == Payload("map", 0, "", <<>>, {}, FALSE, "", None, None)
\* {"success": s}
SuccessMap(s) == Payload("map", 0, "", <<>>, {"success"}, s, "", None, None)
\* {"success": s, "msg": m}
SuccessMsgMap(s, m) == Payload("map", 0, "", <<>>, {"success", "msg"}, s, m, None, None)
\* {"access_token": a, "refresh_token": r}: the reply to login and refresh
TokenMap(a, r) ==
    Payload("map", 0, "", <<>>, {"access_token", "refresh_token"}, FALSE, "", a, r)

IsMapping(response) == response.type = "map"
IsSequence(response) == response.type = "seq"

\* str(n) for a natural number n: its decimal digits.
Digit(d) ==
    CASE d = 0 -> "0" [] d = 1 -> "1" [] d = 2 -> "2" [] d = 3 -> "3" [] d = 4 -> "4"
      [] d = 5 -> "5" [] d = 6 -> "6" [] d = 7 -> "7" [] d = 8 -> "8" [] d = 9 -> "9"

RECURSIVE IntStr(_)
IntStr(n) == IF n < 10 THEN Digit(n) ELSE IntStr(n \div 10) \o Digit(n % 10)

\* repr(response) for None and scalars: None, 10, 'text'
Repr(response) ==
    CASE response.type = "none" -> "None"
      [] response.type = "int" -> IntStr(response.int)
      [] response.type = "str" -> "'" \o response.str \o "'"
      [] OTHER -> "<" \o response.type \o ">"

\* sub in s, for Python strings
Contains(s, sub) ==
    \E i \in 1..(Len(s) - Len(sub) + 1) : SubSeq(s, i, i + Len(sub) - 1) = sub

(***************************************************************************)
(* Outcome of a call: a returned value or a raised error of the taxonomy.  *)
(***************************************************************************)
NoRequest == [method |-> [verb |-> "", name |-> ""], params |-> <<>>]

Returned(response) ==
    [raised |-> FALSE, error |-> "", msg |-> "", request |-> NoRequest,
     response |-> response]

Raised(error, msg, request, response) ==
    [raised |-> TRUE, error |-> error, msg |-> msg, request |-> request,
     response |-> response]

(***************************************************************************)
(* Response validator (ReManagerAPI_Base._check_response and the message  *)
(* of RequestFailedError): tests/test_comm.py, test_ReManagerAPI_Base_02.  *)
(***************************************************************************)
\* Faulty variant: the message is taken from the response without the fallback.
RequestFailedMsg_NoFallback(response) ==
    "Request failed: " \o (IF IsMapping(response) THEN response.msg ELSE Repr(response))

RequestFailedMsg(response) ==
    IF IsMapping(response)
    THEN "Request failed: " \o
         (IF "msg" \in response.keys /\ response.msg # ""
          THEN response.msg ELSE "(no error message)")
    ELSE "Request failed: " \o Repr(response)

\* Whether the validator treats the response as a failure.
IsFailedResponse(response) ==
    \/ ~IsMapping(response) /\ ~IsSequence(response)
    \/ IsMapping(response) /\ "success" \in response.keys /\ ~response.success

\* Faulty variant: a mapping without a success key counts as failed.
CheckResponse_MissingKeyFails(request_fail_exceptions, request, response) ==
    IF request_fail_exceptions
       /\ (IsFailedResponse(response)
           \/ (IsMapping(response) /\ "success" \notin response.keys))
    THEN Raised("RequestFailedError", RequestFailedMsg(response), request, response)
    ELSE Returned(response)

CheckResponse(request_fail_exceptions, request, response) ==
    IF request_fail_exceptions /\ IsFailedResponse(response)
    THEN Raised("RequestFailedError", RequestFailedMsg(response), request, response)
    ELSE Returned(response)

(***************************************************************************)
(* AuthorizationState of the REST client: auth_method and auth_key.        *)
(* auth_key is <<>> (no credential), <<api_key>> or                        *)
(* <<access_token, refresh_token>>; the code reads the refresh token as    *)
(* auth_key[1] (0-based), which is auth_key[2] here.                       *)
(***************************************************************************)
AuthState(method, key) == [auth_method |-> method, auth_key |-> key]

NoAuth == AuthState("NONE", <<>>)

\* set_authorization_key(api_key=None, token=None, refresh_token=None): local
\* only; the new method replaces the previous one.
SetAuthorizationKey(api_key, token, refresh_token) ==
    IF api_key # None THEN AuthState("API_KEY", <<api_key>>)
    ELSE IF token # None \/ refresh_token # None
         THEN AuthState("TOKEN", <<token, refresh_token>>)
         ELSE NoAuth

\* The refresh token the client stores, or None.
StoredRefreshToken(auth) ==
    IF auth.auth_method = "TOKEN" THEN auth.auth_key[2] ELSE None

\* A credential header: <<>> stands for "no headers" (None or empty).
BearerHeader(token) == <<"Authorization", "Bearer " \o token>>
ApiKeyHeader(api_key) == <<"Authorization", "ApiKey " \o api_key>>

\* _prepare_headers(): the header derived from the stored AuthorizationState.
PrepareHeaders(auth) ==
    CASE auth.auth_method = "API_KEY" -> ApiKeyHeader(auth.auth_key[1])
      [] auth.auth_method = "TOKEN" -> BearerHeader(auth.auth_key[1])
      [] OTHER -> <<>>

\* The header built from an explicit token / api_key override of one call
\* (_prepare_whoami, _prepare_apikey_info, _prepare_apikey_delete,
\* _prepare_session_revoke): falsy when no override is given.
OverrideHeaders(token, api_key) ==
    IF token # None THEN BearerHeader(token)
    ELSE IF api_key # None THEN ApiKeyHeader(api_key)
    ELSE <<>>

(***************************************************************************)
(* REST adapter.                                                           *)
(***************************************************************************)
\* A method is a bare name (verb = "") or an explicit (verb, endpoint) pair.
BareMethod(name) == [verb |-> "", name |-> name]
PairMethod(verb, endpoint) == [verb |-> verb, name |-> endpoint]

\* The method-name -> (verb, endpoint) table.
MethodTable ==
    [queue_item_add |-> <<"POST", "/queue/item/add">>,
     session_refresh |-> <<"POST", "/auth/session/refresh">>,
     apikey_new |-> <<"POST", "/auth/apikey">>,
     apikey_info |-> <<"GET", "/auth/apikey">>,
     apikey_delete |-> <<"DELETE", "/auth/apikey">>,
     whoami |-> <<"GET", "/auth/whoami">>,
     api_scopes |-> <<"GET", "/auth/scopes">>,
     logout |-> <<"POST", "/auth/logout">>]

\* _prepare_request(method, params): (verb, endpoint, params), or
\* RequestParameterError for a bare name that is not in the table.
PrepareRequest(method, params) ==
    IF method.verb # ""
    THEN [raised |-> FALSE, msg |-> "", request_method |-> method.verb,
          endpoint |-> method.name, params |-> params]
    ELSE IF method.name \in DOMAIN MethodTable
         THEN [raised |-> FALSE, msg |-> "",
               request_method |-> MethodTable[method.name][1],
               endpoint |-> MethodTable[method.name][2], params |-> params]
         ELSE [raised |-> TRUE, msg |-> "Unknown method '" \o method.name \o "'",
               request_method |-> "", endpoint |-> "", params |-> params]

\* What the HTTP client does with one request: an HTTP response (status,
\* server detail text, decoded body), a connection failure or a timeout.
HttpResponse(status, detail, body) ==
    [kind |-> "response", status |-> status, detail |-> detail, body |-> body]
HttpConnectError(cause) ==
    [kind |-> "connect_error", status |-> 0, detail |-> cause, body |-> NoneResp]
HttpTimeout ==
    [kind |-> "timeout", status |-> 0, detail |-> "timeout occurred", body |-> NoneResp]

\* _process_response and _process_comm_exception applied to what the HTTP
\* client did: the decoded body of a 2xx response, or the typed error.
ProcessResponse(request, out) ==
    CASE out.kind = "timeout" ->
           Raised("RequestTimeoutError", out.detail, request, NoneResp)
      [] out.kind = "connect_error" ->
           Raised("HTTPRequestError", "HTTP request error: " \o out.detail, request, NoneResp)
      [] out.kind = "response" /\ (out.status < 200 \/ out.status >= 300) ->
           Raised("HTTPClientError", IntStr(out.status) \o ": " \o out.detail,
                  request, NoneResp)
      [] OTHER -> Returned(out.body)

\* The request handed to self._client.request(request_method, endpoint, **kwargs).
\* A keyword that is not passed is <<>> (None for the timeout).
ClientRequest(rp, prep, headers) ==
    [request_method |-> prep.request_method, endpoint |-> prep.endpoint,
     json |-> prep.params, params |-> rp.url_params, headers |-> headers,
     data |-> rp.data, timeout |-> rp.timeout]

\* Faulty variant: the HTTP request is issued before the method is looked up.
SimpleRequest_SendFirst(auth, request_fail_exceptions, rp, out) ==
    LET prep == PrepareRequest(rp.method, rp.params)
        headers == IF rp.headers # <<>> THEN rp.headers ELSE PrepareHeaders(auth)
        request == [method |-> rp.method, params |-> prep.params]
        got == ProcessResponse(request, out)
    IN  [sent |-> <<ClientRequest(rp, prep, headers)>>,
         result |-> IF prep.raised
                    THEN Raised("RequestParameterError", prep.msg, request, NoneResp)
                    ELSE IF got.raised THEN got
                    ELSE CheckResponse(request_fail_exceptions, request, got.response)]

\* Faulty variant: the stored credential is sent even when headers are supplied.
SimpleRequest_IgnoreHeaders(auth, request_fail_exceptions, rp, out) ==
    LET prep == PrepareRequest(rp.method, rp.params)
        headers == PrepareHeaders(auth)
        request == [method |-> rp.method, params |-> prep.params]
        got == ProcessResponse(request, out)
    IN  IF prep.raised
        THEN [sent |-> <<>>,
              result |-> Raised("RequestParameterError", prep.msg, request, NoneResp)]
        ELSE [sent |-> <<ClientRequest(rp, prep, headers)>>,
              result |-> IF got.raised THEN got
                         ELSE CheckResponse(request_fail_exceptions, request, got.response)]

\* _simple_request(**request_params), given what the HTTP client does with the
\* request: the requests handed to the HTTP client (none or one) and the
\* value returned or the error raised.
SimpleRequest(auth, request_fail_exceptions, rp, out) ==
    LET prep == PrepareRequest(rp.method, rp.params)
        headers == IF rp.headers # <<>> THEN rp.headers ELSE PrepareHeaders(auth)
        request == [method |-> rp.method, params |-> prep.params]
        got == ProcessResponse(request, out)
    IN  IF prep.raised
        THEN [sent |-> <<>>,
              result |-> Raised("RequestParameterError", prep.msg, request, NoneResp)]
        ELSE [sent |-> <<ClientRequest(rp, prep, headers)>>,
              result |-> IF got.raised THEN got
                         ELSE CheckResponse(request_fail_exceptions, request, got.response)]

(***************************************************************************)
(* Request dispatcher: send_request and the operations built on it.        *)
(*                                                                         *)
(* Each operator takes `outs`, what the HTTP client does with the requests *)
(* the call hands to it, in order, and yields a record:                    *)
(*   auth         the AuthorizationState after the call                    *)
(*   invocations  the send_request invocations made, outermost first       *)
(*   sent         the requests handed to the HTTP client, in order, each   *)
(*                tagged with the step that issued it                      *)
(*   refreshes    the session_refresh() calls made by send_request         *)
(*   retries      the second _simple_request calls made by send_request    *)
(*   first        the outcome of the first _simple_request                 *)
(*   refreshed    the outcome of the session_refresh() call, if any        *)
(*   result       the value returned to, or error raised to, the caller    *)
(***************************************************************************)
RequestParams(method, params, url_params, headers, data, timeout) ==
    [method |-> method, params |-> params, url_params |-> url_params,
     headers |-> headers, data |-> data, timeout |-> timeout]

Invocation(rp, auto_refresh_session) ==
    [rp |-> rp, auto_refresh_session |-> auto_refresh_session]

Tagged(by, sent) == [i \in 1..Len(sent) |-> [by |-> by, request |-> sent[i]]]

\* The requests of a nested session_refresh() call, tagged as its own.
Retagged(by, sent) == [i \in 1..Len(sent) |-> [by |-> by, request |-> sent[i].request]]

NotRun == Returned(NoneResp)

ExpiredTokenMsg == "401: Access token has expired"

\* _process_login_response(response): a reply carrying a token pair is
\* stored and makes the token pair the active method.
ProcessLoginResponse(auth, response) ==
    IF IsMapping(response)
       /\ {"access_token", "refresh_token"} \subseteq response.keys
    THEN SetAuthorizationKey(None, response.access_token, response.refresh_token)
    ELSE auth

\* _prepare_refresh_session(refresh_token): the token passed, else the one
\* stored, else None (for which RequestParameterError is raised).
PrepareRefreshSession(auth, refresh_token) ==
    IF refresh_token # None THEN refresh_token ELSE StoredRefreshToken(auth)

RECURSIVE SendRequest(_, _, _, _, _)
RECURSIVE SessionRefresh(_, _, _, _)

\* The condition of lines 134-139, for the error `ex` of the first attempt.
RefreshCondition(auth, auto_refresh_session, ex) ==
    /\ auto_refresh_session
    /\ Contains(ex.msg, ExpiredTokenMsg)
    /\ auth.auth_method = "TOKEN"
    /\ auth.auth_key[2] # None

\* send_request without the refresh step: what is left when `refresh` stays
\* False (lines 129-142 and 153).
NoRefresh(auth, rp, auto_refresh_session, first) ==
    [auth |-> auth,
     invocations |-> <<Invocation(rp, auto_refresh_session)>>,
     sent |-> Tagged("attempt", first.sent),
     refreshes |-> 0, retries |-> 0,
     first |-> first.result, refreshed |-> NotRun,
     result |-> first.result]

\* Faulty variant: any 401 of the first attempt starts the refresh step.
SendRequest_AnyClientError(auth, request_fail_exceptions, rp, auto_refresh_session, outs) ==
    LET first == SimpleRequest(auth, request_fail_exceptions, rp, outs[1])
    IN  IF first.result.raised /\ first.result.error = "HTTPClientError"
           /\ auto_refresh_session /\ auth.auth_method = "TOKEN"
           /\ auth.auth_key[2] # None
        THEN LET refresh == SessionRefresh(auth, request_fail_exceptions, None, <<outs[2]>>)
                 retry == SimpleRequest(refresh.auth, request_fail_exceptions, rp, outs[3])
             IN  [auth |-> refresh.auth,
                  invocations |-> <<Invocation(rp, auto_refresh_session)>>
                                  \o refresh.invocations,
                  sent |-> Tagged("attempt", first.sent)
                           \o Retagged("refresh", refresh.sent)
                           \o Tagged("retry", retry.sent),
                  refreshes |-> 1, retries |-> 1,
                  first |-> first.result, refreshed |-> refresh.result,
                  result |-> retry.result]
        ELSE NoRefresh(auth, rp, auto_refresh_session, first)

\* Faulty variant: a failed refresh is raised to the caller instead of being printed.
SendRequest_RaiseRefreshError(auth, request_fail_exceptions, rp, auto_refresh_session, outs) ==
    LET first == SimpleRequest(auth, request_fail_exceptions, rp, outs[1])
    IN  IF first.result.raised /\ first.result.error = "HTTPClientError"
           /\ RefreshCondition(auth, auto_refresh_session, first.result)
        THEN LET refresh == SessionRefresh(auth, request_fail_exceptions, None, <<outs[2]>>)
                 retry == SimpleRequest(refresh.auth, request_fail_exceptions, rp, outs[3])
             IN  IF refresh.result.raised
                 THEN [auth |-> refresh.auth,
                       invocations |-> <<Invocation(rp, auto_refresh_session)>>
                                       \o refresh.invocations,
                       sent |-> Tagged("attempt", first.sent)
                                \o Retagged("refresh", refresh.sent),
                       refreshes |-> 1, retries |-> 0,
                       first |-> first.result, refreshed |-> refresh.result,
                       result |-> refresh.result]
                 ELSE [auth |-> refresh.auth,
                       invocations |-> <<Invocation(rp, auto_refresh_session)>>
                                       \o refresh.invocations,
                       sent |-> Tagged("attempt", first.sent)
                           \o Retagged("refresh", refresh.sent)
                                \o Tagged("retry", retry.sent),
                       refreshes |-> 1, retries |-> 1,
                       first |-> first.result, refreshed |-> refresh.result,
                       result |-> retry.result]
        ELSE NoRefresh(auth, rp, auto_refresh_session, first)

\* Faulty variant: the retry goes through send_request again, so an expired token on
\* the retry starts another refresh.
SendRequest_RetryLoops(auth, request_fail_exceptions, rp, auto_refresh_session, outs) ==
    LET first == SimpleRequest(auth, request_fail_exceptions, rp, outs[1])
    IN  IF first.result.raised /\ first.result.error = "HTTPClientError"
           /\ RefreshCondition(auth, auto_refresh_session, first.result)
        THEN LET refresh == SessionRefresh(auth, request_fail_exceptions, None, <<outs[2]>>)
                 retry == SimpleRequest(refresh.auth, request_fail_exceptions, rp, outs[3])
                 again == retry.result.raised /\ retry.result.error = "HTTPClientError"
                          /\ RefreshCondition(refresh.auth, auto_refresh_session, retry.result)
                 refresh2 == SessionRefresh(refresh.auth, request_fail_exceptions, None,
                                            <<outs[2]>>)
                 retry2 == SimpleRequest(refresh2.auth, request_fail_exceptions, rp, outs[3])
             IN  [auth |-> IF again THEN refresh2.auth ELSE refresh.auth,
                  invocations |-> <<Invocation(rp, auto_refresh_session)>>
                                  \o refresh.invocations
                                  \o (IF again THEN refresh2.invocations ELSE <<>>),
                  sent |-> Tagged("attempt", first.sent)
                           \o Retagged("refresh", refresh.sent)
                           \o Tagged("retry", retry.sent)
                           \o (IF again
                               THEN Retagged("refresh", refresh2.sent)
                                    \o Tagged("retry", retry2.sent)
                               ELSE <<>>),
                  refreshes |-> IF again THEN 2 ELSE 1,
                  retries |-> IF again THEN 2 ELSE 1,
                  first |-> first.result, refreshed |-> refresh.result,
                  result |-> IF again THEN retry2.result ELSE retry.result]
        ELSE NoRefresh(auth, rp, auto_refresh_session, first)

\* Faulty variant: the retry is sent with the credential header of the first attempt.
SendRequest_StaleRetry(auth, request_fail_exceptions, rp, auto_refresh_session, outs) ==
    LET first == SimpleRequest(auth, request_fail_exceptions, rp, outs[1])
    IN  IF first.result.raised /\ first.result.error = "HTTPClientError"
           /\ RefreshCondition(auth, auto_refresh_session, first.result)
        THEN LET refresh == SessionRefresh(auth, request_fail_exceptions, None, <<outs[2]>>)
                 retry == SimpleRequest(auth, request_fail_exceptions, rp, outs[3])
             IN  [auth |-> refresh.auth,
                  invocations |-> <<Invocation(rp, auto_refresh_session)>>
                                  \o refresh.invocations,
                  sent |-> Tagged("attempt", first.sent) \o Retagged("refresh", refresh.sent)
                           \o Tagged("retry", retry.sent),
                  refreshes |-> 1, retries |-> 1,
                  first |-> first.result, refreshed |-> refresh.result,
                  result |-> retry.result]
        ELSE NoRefresh(auth, rp, auto_refresh_session, first)

\* Faulty variant: the retry is rebuilt without the body data and the timeout.
SendRequest_RetryDropsBody(auth, request_fail_exceptions, rp, auto_refresh_session, outs) ==
    LET first == SimpleRequest(auth, request_fail_exceptions, rp, outs[1])
    IN  IF first.result.raised /\ first.result.error = "HTTPClientError"
           /\ RefreshCondition(auth, auto_refresh_session, first.result)
        THEN LET refresh == SessionRefresh(auth, request_fail_exceptions, None, <<outs[2]>>)
                 retry == SimpleRequest(refresh.auth, request_fail_exceptions,
                                        [rp EXCEPT !.data = <<>>, !.timeout = None],
                                        outs[3])
             IN  [auth |-> refresh.auth,
                  invocations |-> <<Invocation(rp, auto_refresh_session)>>
                                  \o refresh.invocations,
                  sent |-> Tagged("attempt", first.sent) \o Retagged("refresh", refresh.sent)
                           \o Tagged("retry", retry.sent),
                  refreshes |-> 1, retries |-> 1,
                  first |-> first.result, refreshed |-> refresh.result,
                  result |-> retry.result]
        ELSE NoRefresh(auth, rp, auto_refresh_session, first)

\* send_request(method, params, url_params, headers, data, timeout,
\* auto_refresh_session): outs[1] answers the first attempt, outs[2] the
\* refresh request and outs[3] the retried attempt.
SendRequest(auth, request_fail_exceptions, rp, auto_refresh_session, outs) ==
    LET first == SimpleRequest(auth, request_fail_exceptions, rp, outs[1])
    IN  IF first.result.raised /\ first.result.error = "HTTPClientError"
           /\ RefreshCondition(auth, auto_refresh_session, first.result)
        THEN LET refresh == SessionRefresh(auth, request_fail_exceptions, None, <<outs[2]>>)
                 retry == SimpleRequest(refresh.auth, request_fail_exceptions, rp, outs[3])
             IN  [auth |-> refresh.auth,
                  invocations |-> <<Invocation(rp, auto_refresh_session)>>
                                  \o refresh.invocations,
                  sent |-> Tagged("attempt", first.sent)
                           \o Retagged("refresh", refresh.sent)
                           \o Tagged("retry", retry.sent),
                  refreshes |-> 1, retries |-> 1,
                  first |-> first.result, refreshed |-> refresh.result,
                  result |-> retry.result]
        ELSE NoRefresh(auth, rp, auto_refresh_session, first)

\* What an operation yields when it raises before calling send_request.
RaisedBeforeRequest(auth, result) ==
    [auth |-> auth, invocations |-> <<>>, sent |-> <<>>, refreshes |-> 0,
     retries |-> 0, first |-> NotRun, refreshed |-> NotRun, result |-> result]

\* Faulty variant: a refresh whose request raises drops the stored credentials.
SessionRefresh_ClearsOnFailure(auth, request_fail_exceptions, refresh_token, outs) ==
    LET token == PrepareRefreshSession(auth, refresh_token)
        rp == RequestParams(BareMethod("session_refresh"), <<"refresh_token", token>>,
                            <<>>, <<>>, <<>>, None)
        sr == SendRequest(auth, request_fail_exceptions, rp, FALSE, outs)
    IN  IF token = None
        THEN RaisedBeforeRequest(auth, Raised("RequestParameterError",
                                              "'refresh_token' is not set",
                                              NoRequest, NoneResp))
        ELSE [sr EXCEPT !.auth = IF sr.result.raised THEN NoAuth
                                 ELSE ProcessLoginResponse(sr.auth, sr.result.response)]

\* Faulty variant: the request is sent even when no refresh token is available.
SessionRefresh_SendsWithoutToken(auth, request_fail_exceptions, refresh_token, outs) ==
    LET token == PrepareRefreshSession(auth, refresh_token)
        rp == RequestParams(BareMethod("session_refresh"), <<"refresh_token", token>>,
                            <<>>, <<>>, <<>>, None)
        sr == SendRequest(auth, request_fail_exceptions, rp, FALSE, outs)
    IN  [sr EXCEPT !.auth = IF sr.result.raised THEN sr.auth
                             ELSE ProcessLoginResponse(sr.auth, sr.result.response)]

\* session_refresh(refresh_token=None)
SessionRefresh(auth, request_fail_exceptions, refresh_token, outs) ==
    LET token == PrepareRefreshSession(auth, refresh_token)
        rp == RequestParams(BareMethod("session_refresh"), <<"refresh_token", token>>,
                            <<>>, <<>>, <<>>, None)
        sr == SendRequest(auth, request_fail_exceptions, rp, FALSE, outs)
    IN  IF token = None
        THEN RaisedBeforeRequest(auth,
                 Raised("RequestParameterError", "'refresh_token' is not set",
                        NoRequest, NoneResp))
        ELSE [sr EXCEPT !.auth = IF sr.result.raised THEN sr.auth
                                 ELSE ProcessLoginResponse(sr.auth, sr.result.response)]

\* login(username, password=..., provider=...)
Login(auth, request_fail_exceptions, username, password, provider, outs) ==
    LET endpoint == "/auth/provider/" \o provider \o "/token"
        data == <<"username", username, "password", password>>
        rp == RequestParams(PairMethod("POST", endpoint), <<>>, <<>>, <<>>, data,
                            "timeout_login")
        sr == SendRequest(auth, request_fail_exceptions, rp, FALSE, outs)
    IN  [sr EXCEPT !.auth = IF sr.result.raised THEN sr.auth
                            ELSE ProcessLoginResponse(sr.auth, sr.result.response)]

\* Faulty variant: the override headers do not switch auto-refresh off.
OverrideRequest_AutoRefresh(auth, request_fail_exceptions, method, url_params, headers, outs) ==
    SendRequest(auth, request_fail_exceptions,
                RequestParams(method, <<>>, url_params, headers, <<>>, None), TRUE, outs)

\* Faulty variant: auto-refresh is switched off whether or not headers are given.
OverrideRequest_NeverRefresh(auth, request_fail_exceptions, method, url_params, headers, outs) ==
    SendRequest(auth, request_fail_exceptions,
                RequestParams(method, <<>>, url_params, headers, <<>>, None), FALSE, outs)

\* kwargs = {"headers": headers, "auto_refresh_session": False} if headers else {}
\* response = self.send_request(method=..., **kwargs)
OverrideRequest(auth, request_fail_exceptions, method, url_params, headers, outs) ==
    IF headers # <<>>
    THEN SendRequest(auth, request_fail_exceptions,
                     RequestParams(method, <<>>, url_params, headers, <<>>, None),
                     FALSE, outs)
    ELSE SendRequest(auth, request_fail_exceptions,
                     RequestParams(method, <<>>, url_params, <<>>, <<>>, None),
                     TRUE, outs)

\* session_revoke(session_uid, token=None, api_key=None)
SessionRevoke(auth, request_fail_exceptions, session_uid, token, api_key, outs) ==
    OverrideRequest(auth, request_fail_exceptions,
                    PairMethod("DELETE", "/auth/session/revoke/" \o session_uid),
                    <<>>, OverrideHeaders(token, api_key), outs)

\* apikey_new(expires_in, scopes=None, note=None, principal_uid=None)
ApikeyNew(auth, request_fail_exceptions, expires_in, outs) ==
    SendRequest(auth, request_fail_exceptions,
                RequestParams(BareMethod("apikey_new"), <<"expires_in", expires_in>>,
                              <<>>, <<>>, <<>>, None),
                TRUE, outs)

\* apikey_info(api_key=None)
ApikeyInfo(auth, request_fail_exceptions, api_key, outs) ==
    OverrideRequest(auth, request_fail_exceptions, BareMethod("apikey_info"),
                    <<>>, OverrideHeaders(None, api_key), outs)

\* apikey_delete(first_eight, token=None, api_key=None)
ApikeyDelete(auth, request_fail_exceptions, first_eight, token, api_key, outs) ==
    OverrideRequest(auth, request_fail_exceptions, BareMethod("apikey_delete"),
                    <<"first_eight", first_eight>>, OverrideHeaders(token, api_key), outs)

\* whoami(token=None, api_key=None)
Whoami(auth, request_fail_exceptions, token, api_key, outs) ==
    OverrideRequest(auth, request_fail_exceptions, BareMethod("whoami"),
                    <<>>, OverrideHeaders(token, api_key), outs)

\* principal_info(principal_uid=None)
PrincipalInfo(auth, request_fail_exceptions, principal_uid, outs) ==
    SendRequest(auth, request_fail_exceptions,
                RequestParams(IF principal_uid = None THEN BareMethod("whoami")
                              ELSE PairMethod("GET", "/auth/principal/" \o principal_uid),
                              <<>>, <<>>, <<>>, <<>>, None),
                TRUE, outs)

\* api_scopes(token=None, api_key=None)
ApiScopes(auth, request_fail_exceptions, token, api_key, outs) ==
    OverrideRequest(auth, request_fail_exceptions, BareMethod("api_scopes"),
                    <<>>, OverrideHeaders(token, api_key), outs)

\* Faulty variant: logout resets the method and keeps the stored key.
Logout_KeepsKey(auth, request_fail_exceptions, outs) ==
    LET sr == SendRequest(auth, request_fail_exceptions,
                          RequestParams(BareMethod("logout"), <<>>, <<>>, <<>>, <<>>, None),
                          TRUE, outs)
    IN  [sr EXCEPT !.auth = IF sr.result.raised THEN sr.auth
                            ELSE AuthState("NONE", sr.auth.auth_key)]

\* logout(): the keys are cleared on the line after send_request, which is
\* reached only when send_request returns.
Logout(auth, request_fail_exceptions, outs) ==
    LET sr == SendRequest(auth, request_fail_exceptions,
                          RequestParams(BareMethod("logout"), <<>>, <<>>, <<>>, <<>>, None),
                          TRUE, outs)
    IN  [sr EXCEPT !.auth = IF sr.result.raised THEN sr.auth
                            ELSE SetAuthorizationKey(None, None, None)]

(***************************************************************************)
(* The messaging client (ReManagerComm_ZMQ_Threads).                       *)
(***************************************************************************)
\* What self._client.send_message does with one message: it returns the
\* server's reply, or (raise_exceptions=True) raises on a receive timeout or
\* on another failure of the transport.
ZmqReply(body) == [kind |-> "reply", body |-> body]
ZmqTimeout == [kind |-> "timeout", body |-> NoneResp]
ZmqFailure == [kind |-> "failure", body |-> NoneResp]

\* _process_comm_exception of the messaging client: a timeout becomes
\* RequestTimeoutError, any other failure the generic request error.
ZMQ_ProcessCommException(request, out) ==
    IF out.kind = "timeout"
    THEN Raised("RequestTimeoutError", "timeout occurred", request, NoneResp)
    ELSE Raised("RequestError", "request failed", request, NoneResp)

\* Line 55 read with `response` never assigned: the except clause of line 53
\* ended without raising.
UnassignedResponse(request) ==
    Raised("UnboundLocalError", "local variable 'response' referenced before assignment",
           request, NoneResp)

\* Faulty variant: the reply is returned without _check_response.
ZMQ_SendRequest_Unchecked(request_fail_exceptions, method, params, out) ==
    LET request == [method |-> method, params |-> params]
        translated == ZMQ_ProcessCommException(request, out)
    IN  [sent |-> <<request>>,
         result |-> IF out.kind = "reply" THEN Returned(out.body)
                    ELSE IF translated.raised THEN translated
                    ELSE UnassignedResponse(request)]

\* Faulty variant: the except clause swallows the failure.
ZMQ_SendRequest_Swallow(request_fail_exceptions, method, params, out) ==
    LET request == [method |-> method, params |-> params]
    IN  [sent |-> <<request>>,
         result |-> IF out.kind = "reply"
                    THEN CheckResponse(request_fail_exceptions, request, out.body)
                    ELSE UnassignedResponse(request)]

\* Faulty variant: a failed send_message is tried once more.
ZMQ_SendRequest_Resend(request_fail_exceptions, method, params, out) ==
    LET request == [method |-> method, params |-> params]
        translated == ZMQ_ProcessCommException(request, out)
    IN  [sent |-> IF out.kind = "reply" THEN <<request>> ELSE <<request, request>>,
         result |-> IF out.kind = "reply"
                    THEN CheckResponse(request_fail_exceptions, request, out.body)
                    ELSE IF translated.raised THEN translated
                    ELSE UnassignedResponse(request)]

\* ReManagerComm_ZMQ_Threads.send_request(method, params): one send_message
\* call; its exception goes to _process_comm_exception, whose result is not
\* kept; the reply goes to _check_response and is returned.
ZMQ_SendRequest(request_fail_exceptions, method, params, out) ==
    LET request == [method |-> method, params |-> params]
        translated == ZMQ_ProcessCommException(request, out)
    IN  [sent |-> <<request>>,
         result |-> IF out.kind = "reply"
                    THEN CheckResponse(request_fail_exceptions, request, out.body)
                    ELSE IF translated.raised THEN translated
                    ELSE UnassignedResponse(request)]

(***************************************************************************)
(* The asynchronous clients (comm_async.py: ReManagerComm_ZMQ_Async and    *)
(* ReManagerComm_HTTP_Async), which tests/test_comm.py runs next to the    *)
(* thread-based ones.  Their send_request is the same dispatcher over an   *)
(* awaited transport call.                                                 *)
(***************************************************************************)
\* What the asynchronous HTTP client does with a request when the server's
\* behaviour is the one that gives the thread-based HTTP client `out`: the
\* two report an unreachable server with different causes.
AsyncOut(out) ==
    IF out = HttpConnectError("[Errno 111] Connection refused")
    THEN HttpConnectError("All connection attempts failed")
    ELSE out

Async_SimpleRequest(auth, request_fail_exceptions, rp, out) ==
    LET prep == PrepareRequest(rp.method, rp.params)
        headers == IF rp.headers # <<>> THEN rp.headers ELSE PrepareHeaders(auth)
        request == [method |-> rp.method, params |-> prep.params]
        got == ProcessResponse(request, out)
    IN  IF prep.raised
        THEN [sent |-> <<>>,
              result |-> Raised("RequestParameterError", prep.msg, request, NoneResp)]
        ELSE [sent |-> <<ClientRequest(rp, prep, headers)>>,
              result |-> IF got.raised THEN got
                         ELSE CheckResponse(request_fail_exceptions, request, got.response)]

\* await self.session_refresh() of the refresh step.
Async_SessionRefresh(auth, request_fail_exceptions, out) ==
    LET token == PrepareRefreshSession(auth, None)
        rp == RequestParams(BareMethod("session_refresh"), <<"refresh_token", token>>,
                            <<>>, <<>>, <<>>, None)
        sr == Async_SimpleRequest(auth, request_fail_exceptions, rp, out)
    IN  IF token = None
        THEN [auth |-> auth, sent |-> <<>>,
              result |-> Raised("RequestParameterError", "'refresh_token' is not set",
                                NoRequest, NoneResp)]
        ELSE [auth |-> IF sr.result.raised THEN auth
                       ELSE ProcessLoginResponse(auth, sr.result.response),
              sent |-> sr.sent, result |-> sr.result]

\* await RM.send_request(...) of the asynchronous REST client.
Async_SendRequest(auth, request_fail_exceptions, rp, auto_refresh_session, outs) ==
    LET first == Async_SimpleRequest(auth, request_fail_exceptions, rp, outs[1])
    IN  IF first.result.raised /\ first.result.error = "HTTPClientError"
           /\ RefreshCondition(auth, auto_refresh_session, first.result)
        THEN LET refresh == Async_SessionRefresh(auth, request_fail_exceptions, outs[2])
                 retry == Async_SimpleRequest(refresh.auth, request_fail_exceptions, rp,
                                              outs[3])
             IN  [auth |-> refresh.auth,
                  sent |-> Tagged("attempt", first.sent) \o Tagged("refresh", refresh.sent)
                           \o Tagged("retry", retry.sent),
                  result |-> retry.result]
        ELSE [auth |-> auth, sent |-> Tagged("attempt", first.sent),
              result |-> first.result]

\* await RM.send_request(...) of the asynchronous messaging client.
Async_ZMQ_SendRequest(request_fail_exceptions, method, params, out) ==
    LET request == [method |-> method, params |-> params]
        translated == ZMQ_ProcessCommException(request, out)
    IN  [sent |-> <<request>>,
         result |-> IF out.kind = "reply"
                    THEN CheckResponse(request_fail_exceptions, request, out.body)
                    ELSE translated]

(***************************************************************************)
(* State of one client object.                                             *)
(***************************************************************************)
VARIABLES
    client_class,             \* "Base", "ZMQ" or "HTTP": the class constructed
    request_fail_exceptions,  \* the constructor's request_fail_exceptions flag
    console_monitor_poll_timeout,  \* self._console_monitor_poll_timeout
    console_monitor_poll_period,   \* self._console_monitor_poll_period
    auth_method, auth_key,    \* AuthorizationState (REST client)
    is_closing,               \* self._is_closing
    deleted,                  \* __del__ has run
    close_events,             \* what close() and __del__ did, in order
    monitor_waits,            \* the timeouts given to disable_wait, in order
    validated,                \* the last _check_response call and its outcome
    call,                     \* the last operation called and what it did
    async_client,             \* the asynchronous client given the same calls
    threads                   \* the send_request call of each application thread

\* What the constructor fixes.
config == <<client_class, request_fail_exceptions, console_monitor_poll_timeout,
            console_monitor_poll_period>>

vars == <<config, auth_method, auth_key, is_closing, deleted, close_events,
          monitor_waits, validated, call, async_client, threads>>

Auth == AuthState(auth_method, auth_key)

NoCall ==
    [op |-> "", override |-> <<>>, before |-> NoAuth, after |-> NoAuth,
     invocations |-> <<>>, sent |-> <<>>, refreshes |-> 0, retries |-> 0,
     first |-> NotRun, refreshed |-> NotRun, result |-> NotRun, outs |-> <<>>]

\* The application threads that call send_request on one client object.
Threads == {1, 2}

\* A thread that has not called send_request: the locals of the call
\* (auto_refresh_session, the refresh token session_refresh took), the
\* requests it handed to the HTTP client and what it got.
IdleThread ==
    [pc |-> "idle", auto_refresh_session |-> FALSE, token |-> None, sent |-> <<>>,
     first |-> NotRun, refreshed |-> NotRun, result |-> NotRun]

\* The asynchronous client before any call.
NoAsyncCall == [auth |-> NoAuth, done |-> FALSE, sent |-> <<>>, result |-> NotRun]

NotValidated ==
    [done |-> FALSE, enabled |-> FALSE, request |-> NoRequest, response |-> NoneResp,
     result |-> NotRun]

\* The record of one operation: `r` is what the operation's operator yields.
\* `outs` is what the HTTP client did with the requests.
CallRecord(op, override, before, outs, r) ==
    [op |-> op, override |-> override, before |-> before, after |-> r.auth,
     invocations |-> r.invocations, sent |-> r.sent, refreshes |-> r.refreshes,
     retries |-> r.retries, first |-> r.first, refreshed |-> r.refreshed,
     result |-> r.result, outs |-> outs]

(***************************************************************************)
(* Inputs: what the server and the network may do, and the arguments the   *)
(* application passes.                                                     *)
(***************************************************************************)
Http401Expired == HttpResponse(401, "Access token has expired", NoneResp)
HttpRefused == HttpConnectError("[Errno 111] Connection refused")
HttpSuccess == HttpResponse(200, "", SuccessMap(TRUE))
HttpRejected == HttpResponse(200, "", SuccessMsgMap(FALSE, "request contains no item info"))
HttpTokens == HttpResponse(200, "", TokenMap("tokB", "refB"))

\* Answers to the first attempt of a request.
HttpOutcomes ==
    {HttpSuccess, HttpRejected, HttpTokens, Http401Expired,
     HttpResponse(401, "Invalid credentials", NoneResp),
     HttpResponse(403, "Access token has expired", NoneResp),
     HttpRefused, HttpTimeout}

\* Answers to the refresh request of the refresh step.
RefreshOutcomes ==
    {HttpTokens, HttpRejected, HttpResponse(401, "Invalid credentials", NoneResp)}

\* Answers to the retried attempt.
RetryOutcomes == {HttpSuccess, HttpRejected, Http401Expired}

\* The answers to the up to three requests of one send_request call.  The
\* second and third answers vary only after the expired-token answer.
Outs ==
    {<<Http401Expired, b, c>> : b \in RefreshOutcomes, c \in RetryOutcomes}
    \cup {<<a, HttpRefused, HttpRefused>> : a \in HttpOutcomes}

\* The answers to a call that is given one request to answer.
OneOut == {<<a, HttpRefused, HttpRefused>> : a \in HttpOutcomes}

\* (token, api_key) overrides of one call.
Overrides == {<<None, None>>, <<"tokX", None>>, <<None, "keyX">>}
TokenOverrides == {<<None, None>>, <<"tokX", None>>}
ApiKeyOverrides == {<<None, None>>, <<None, "keyX">>}

\* (method, headers, auto_refresh_session) of a direct send_request call.
SendRequestArgs ==
    {<<BareMethod("queue_item_add"), h, a>> : h \in {<<>>, BearerHeader("tokX")},
                                              a \in BOOLEAN}
    \cup {<<BareMethod("unknown_method"), <<>>, TRUE>>}

\* What the messaging client may do with the message of one send_request.
ZmqRejected == ZmqReply(SuccessMsgMap(FALSE, "request contains no item info"))
ZmqOutcomes ==
    {ZmqReply(SuccessMap(TRUE)), ZmqRejected, ZmqReply(SuccessMap(FALSE)),
     ZmqReply(NoneResp), ZmqReply(SeqResp(<<>>)), ZmqTimeout, ZmqFailure}

\* The params of a send_request call to the messaging client.
ZmqParams == {<<"item", "plan1">>, <<"user", "Test User">>, <<>>}

ValidatorResponses ==
    {NoneResp, IntResp(10), IntResp(0), StrResp("abc"), StrResp(""),
     SeqResp(<<>>), SeqResp(<<1, 2, 3>>), EmptyMap, SuccessMap(TRUE),
     SuccessMap(FALSE), SuccessMsgMap(FALSE, "Error occurred"),
     SuccessMsgMap(FALSE, ""), SuccessMsgMap(TRUE, "done"),
     Payload("map", 0, "", <<>>, {"msg"}, FALSE, "note", None, None)}

\* A client object after construction, whatever its class and configuration.
Constructed ==
    /\ auth_method = "NONE"
    /\ auth_key = <<>>
    /\ is_closing = FALSE
    /\ deleted = FALSE
    /\ close_events = <<>>
    /\ monitor_waits = <<>>
    /\ validated = NotValidated
    /\ call = NoCall
    /\ async_client = NoAsyncCall
    /\ threads = [t \in Threads |-> IdleThread]

Init ==
    /\ client_class \in {"Base", "ZMQ", "HTTP"}
    /\ request_fail_exceptions \in BOOLEAN
    /\ console_monitor_poll_timeout = 1
    /\ console_monitor_poll_period = 2
    /\ Constructed

\* The operations are called on an object that exists and was not closed.
Open(class) == client_class = class /\ ~deleted /\ close_events = <<>>

\* An operation of the REST client: `r` is what its operator yields.
Did(op, override, outs, r) ==
    /\ call' = CallRecord(op, override, Auth, outs, r)
    /\ auth_method' = r.auth.auth_method
    /\ auth_key' = r.auth.auth_key
    /\ UNCHANGED <<config, threads, monitor_waits, async_client, is_closing, deleted,
                   close_events, validated>>

(***************************************************************************)
(* Actions.                                                                *)
(***************************************************************************)
\* RM._check_response(request=request, response=response)
Base_check_response ==
    /\ client_class = "Base"
    /\ \E response \in ValidatorResponses :
         LET request == [method |-> BareMethod("test"), params |-> <<>>]
         IN  validated' = [done |-> TRUE, enabled |-> request_fail_exceptions,
                           request |-> request, response |-> response,
                           result |-> CheckResponse(request_fail_exceptions, request,
                                                    response)]
    /\ UNCHANGED <<config, threads, monitor_waits, async_client, auth_method, auth_key,
                   is_closing, deleted, close_events, call>>

\* RM.send_request(method=..., params=...) of the messaging client.
ZMQ_send_request ==
    /\ Open("ZMQ")
    /\ \E method \in {"queue_item_add", "status"}, params \in ZmqParams, out \in ZmqOutcomes :
         LET r == ZMQ_SendRequest(request_fail_exceptions, BareMethod(method), params, out)
         IN  call' = [NoCall EXCEPT !.op = "ZMQ.send_request",
                                    !.before = Auth, !.after = Auth,
                                    !.sent = Tagged("send_message", r.sent),
                                    !.first = r.result, !.result = r.result,
                                    !.outs = <<out>>]
    /\ UNCHANGED <<config, threads, monitor_waits, async_client, auth_method, auth_key,
                   is_closing, deleted, close_events, validated>>

HTTP_set_authorization_key ==
    /\ Open("HTTP")
    /\ \E k \in {<<None, None, None>>, <<"keyA", None, None>>, <<None, "tokA", "refA">>,
                 <<None, "tokA", None>>} :
         Did("set_authorization_key", <<>>, <<>>,
             RaisedBeforeRequest(SetAuthorizationKey(k[1], k[2], k[3]), NotRun))

HTTP_send_request ==
    /\ Open("HTTP")
    /\ \E a \in SendRequestArgs, outs \in Outs :
         Did("send_request", a[2], outs,
             SendRequest(Auth, request_fail_exceptions,
                         RequestParams(a[1], <<"item", "plan1">>, <<"option", "1">>,
                                       a[2], <<"body", "raw">>, "2.5"),
                         a[3], outs))

HTTP_login ==
    /\ Open("HTTP")
    /\ \E outs \in OneOut :
         Did("login", <<>>, outs,
             Login(Auth, request_fail_exceptions, "user", "secret", "toy", outs))

HTTP_session_refresh ==
    /\ Open("HTTP")
    /\ \E refresh_token \in {None, "refA"}, outs \in OneOut :
         Did("session_refresh",
             IF refresh_token = None THEN <<>> ELSE <<"refresh_token", refresh_token>>,
             outs,
             SessionRefresh(Auth, request_fail_exceptions, refresh_token, outs))

HTTP_session_revoke ==
    /\ Open("HTTP")
    /\ \E o \in TokenOverrides, outs \in Outs :
         Did("session_revoke", OverrideHeaders(o[1], o[2]), outs,
             SessionRevoke(Auth, request_fail_exceptions, "uid1", o[1], o[2], outs))

HTTP_apikey_new ==
    /\ Open("HTTP")
    /\ \E outs \in Outs :
         Did("apikey_new", <<>>, outs,
             ApikeyNew(Auth, request_fail_exceptions, "900", outs))

HTTP_apikey_info ==
    /\ Open("HTTP")
    /\ \E o \in ApiKeyOverrides, outs \in Outs :
         Did("apikey_info", OverrideHeaders(None, o[2]), outs,
             ApikeyInfo(Auth, request_fail_exceptions, o[2], outs))

HTTP_apikey_delete ==
    /\ Open("HTTP")
    /\ \E o \in ApiKeyOverrides, outs \in Outs :
         Did("apikey_delete", OverrideHeaders(o[1], o[2]), outs,
             ApikeyDelete(Auth, request_fail_exceptions, "abcdefgh", o[1], o[2], outs))

HTTP_whoami ==
    /\ Open("HTTP")
    /\ \E o \in Overrides, outs \in Outs :
         Did("whoami", OverrideHeaders(o[1], o[2]), outs,
             Whoami(Auth, request_fail_exceptions, o[1], o[2], outs))

HTTP_principal_info ==
    /\ Open("HTTP")
    /\ \E principal_uid \in {None, "uid7"}, outs \in Outs :
         Did("principal_info", <<>>, outs,
             PrincipalInfo(Auth, request_fail_exceptions, principal_uid, outs))

HTTP_api_scopes ==
    /\ Open("HTTP")
    /\ \E o \in TokenOverrides, outs \in Outs :
         Did("api_scopes", OverrideHeaders(o[1], o[2]), outs,
             ApiScopes(Auth, request_fail_exceptions, o[1], o[2], outs))

HTTP_logout ==
    /\ Open("HTTP")
    /\ \E outs \in Outs :
         Did("logout", <<>>, outs,
             Logout(Auth, request_fail_exceptions, outs))

\* The number of close() calls made so far.
Closes == Cardinality({i \in 1..Len(close_events) : close_events[i] = "close"})

\* Faulty variant: the messaging client is closed before the monitor is stopped.
ZMQ_close_ReleaseFirst ==
    /\ client_class = "ZMQ"
    /\ ~deleted
    /\ Closes < MaxCloses
    /\ is_closing' = TRUE
    /\ close_events' = close_events
                       \o <<"close", "is_closing", "client_close", "disable_wait">>
    /\ monitor_waits' = Append(monitor_waits, console_monitor_poll_timeout * 10)
    /\ UNCHANGED <<config, threads, async_client, auth_method, auth_key,
                   deleted, validated, call>>

\* ReManagerComm_ZMQ_Threads.close(): the flag, the monitor's disable_wait,
\* the messaging client's close.
ZMQ_close ==
    /\ client_class = "ZMQ"
    /\ ~deleted
    /\ Closes < MaxCloses
    /\ is_closing' = TRUE
    /\ close_events' = close_events
                       \o <<"close", "is_closing", "disable_wait", "client_close">>
    /\ monitor_waits' = Append(monitor_waits, console_monitor_poll_timeout * 10)
    /\ UNCHANGED <<config, threads, async_client, auth_method, auth_key,
                   deleted, validated, call>>

\* ReManagerComm_HTTP_Threads.close(): the flag, the monitor's disable_wait,
\* the HTTP client's close.
HTTP_close ==
    /\ client_class = "HTTP"
    /\ ~deleted
    /\ Closes < MaxCloses
    /\ is_closing' = TRUE
    /\ close_events' = close_events
                       \o <<"close", "is_closing", "disable_wait", "client_close">>
    /\ monitor_waits' = Append(monitor_waits, console_monitor_poll_period * 10)
    /\ UNCHANGED <<config, threads, async_client, auth_method, auth_key,
                   deleted, validated, call>>

\* ReManagerComm_ZMQ_Threads.__del__(): only the flag.
ZMQ_del ==
    /\ client_class = "ZMQ"
    /\ ~deleted
    /\ is_closing' = TRUE
    /\ deleted' = TRUE
    /\ close_events' = close_events \o <<"del", "is_closing">>
    /\ UNCHANGED <<config, threads, monitor_waits, async_client, auth_method, auth_key,
                   validated, call>>

\* ReManagerComm_HTTP_Threads.__del__(): only the flag.
HTTP_del ==
    /\ client_class = "HTTP"
    /\ ~deleted
    /\ is_closing' = TRUE
    /\ deleted' = TRUE
    /\ close_events' = close_events \o <<"del", "is_closing">>
    /\ UNCHANGED <<config, threads, monitor_waits, async_client, auth_method, auth_key,
                   validated, call>>

Next ==
    \/ Base_check_response
    \/ ZMQ_send_request
    \/ HTTP_set_authorization_key
    \/ HTTP_send_request
    \/ HTTP_login
    \/ HTTP_session_refresh
    \/ HTTP_session_revoke
    \/ HTTP_apikey_new
    \/ HTTP_apikey_info
    \/ HTTP_apikey_delete
    \/ HTTP_whoami
    \/ HTTP_principal_info
    \/ HTTP_api_scopes
    \/ HTTP_logout
    \/ ZMQ_close
    \/ HTTP_close
    \/ ZMQ_del
    \/ HTTP_del

Spec == Init /\ [][Next]_vars

(***************************************************************************)
(* The two execution modes side by side: a thread-based client (the state  *)
(* above) and an asynchronous client of the same class are constructed     *)
(* alike and given the same calls while the server behaves the same way    *)
(* towards both, as tests/test_comm.py does.                               *)
(***************************************************************************)
AsyncCall(r) == [auth |-> r.auth, done |-> TRUE, sent |-> r.sent, result |-> r.result]

\* RM.set_authorization_key(...) on both REST clients.
Modes_set_authorization_key ==
    /\ Open("HTTP")
    /\ \E k \in {<<None, None, None>>, <<"keyA", None, None>>, <<None, "tokA", "refA">>,
                 <<None, "tokA", None>>} :
         LET auth == SetAuthorizationKey(k[1], k[2], k[3])
         IN  /\ call' = CallRecord("set_authorization_key", <<>>, Auth, <<>>,
                                   RaisedBeforeRequest(auth, NotRun))
             /\ auth_method' = auth.auth_method
             /\ auth_key' = auth.auth_key
             /\ async_client' = [NoAsyncCall EXCEPT !.auth = auth]
    /\ UNCHANGED <<config, threads, monitor_waits, is_closing, deleted, close_events, validated>>

\* RM.send_request(...) and await RM.send_request(...) on the REST clients.
Modes_HTTP_send_request ==
    /\ Open("HTTP")
    /\ \E a \in SendRequestArgs, outs \in Outs :
         LET rp == RequestParams(a[1], <<"item", "plan1">>, <<>>, a[2], <<>>, None)
             r == SendRequest(Auth, request_fail_exceptions, rp, a[3], outs)
             async_outs == <<AsyncOut(outs[1]), AsyncOut(outs[2]), AsyncOut(outs[3])>>
         IN  /\ call' = CallRecord("send_request", a[2], Auth, outs, r)
             /\ auth_method' = r.auth.auth_method
             /\ auth_key' = r.auth.auth_key
             /\ async_client' = AsyncCall(Async_SendRequest(async_client.auth,
                                              request_fail_exceptions, rp, a[3],
                                              async_outs))
    /\ UNCHANGED <<config, threads, monitor_waits, is_closing, deleted, close_events, validated>>

\* RM.send_request(...) and await RM.send_request(...) on the messaging clients.
Modes_ZMQ_send_request ==
    /\ Open("ZMQ")
    /\ \E method \in {"queue_item_add", "status"}, params \in ZmqParams, out \in ZmqOutcomes :
         LET r == ZMQ_SendRequest(request_fail_exceptions, BareMethod(method), params, out)
             ar == Async_ZMQ_SendRequest(request_fail_exceptions, BareMethod(method),
                                         params, out)
         IN  /\ call' = [NoCall EXCEPT !.op = "ZMQ.send_request",
                                       !.before = Auth, !.after = Auth,
                                       !.sent = Tagged("send_message", r.sent),
                                       !.first = r.result, !.result = r.result,
                                       !.outs = <<out>>]
             /\ async_client' = AsyncCall([auth |-> async_client.auth,
                                           sent |-> Tagged("send_message", ar.sent),
                                           result |-> ar.result])
    /\ UNCHANGED <<config, threads, monitor_waits, auth_method, auth_key, is_closing, deleted,
                   close_events, validated>>

InitModes == Init /\ client_class \in {"ZMQ", "HTTP"}

NextModes ==
    \/ Modes_set_authorization_key
    \/ Modes_HTTP_send_request
    \/ Modes_ZMQ_send_request

SpecModes == InitModes /\ [][NextModes]_vars

(***************************************************************************)
(* The life cycle alone, over the console monitor's poll settings: clients *)
(* constructed with any of the poll intervals, then closed and deleted.    *)
(***************************************************************************)
\* Values of console_monitor_poll_timeout and console_monitor_poll_period
\* the constructor is given, in units of 0.1 s.
PollIntervals == {1, 2, 5}

InitClose ==
    /\ client_class \in {"ZMQ", "HTTP"}
    /\ request_fail_exceptions \in BOOLEAN
    /\ console_monitor_poll_timeout \in PollIntervals
    /\ console_monitor_poll_period \in PollIntervals
    /\ Constructed

NextClose ==
    \/ ZMQ_close
    \/ HTTP_close
    \/ ZMQ_del
    \/ HTTP_del

SpecClose == InitClose /\ [][NextClose]_vars

(***************************************************************************)
(* Two application threads calling send_request on the same REST client    *)
(* with no lock: the steps of send_request, _simple_request and            *)
(* session_refresh of one thread interleave with those of the other.  A    *)
(* step ends where the code next reads or writes auth_method / auth_key or *)
(* waits for the HTTP client.                                              *)
(***************************************************************************)
\* request_params of the calls the threads make (lines 121-128).
ThreadRequest ==
    RequestParams(BareMethod("queue_item_add"), <<"item", "plan1">>, <<>>, <<>>, <<>>, None)

\* The request session_refresh builds for the refresh token `token`.
RefreshRequest(token) ==
    RequestParams(BareMethod("session_refresh"), <<"refresh_token", token>>,
                  <<>>, <<>>, <<>>, None)

\* Answers to the first attempt of a thread's call.
ThreadFirstOutcomes == {Http401Expired, HttpSuccess, HttpRefused}

\* The step of thread t changes its record to `next`; the client's
\* credentials stay as they are.
ThreadMoves(t, next) ==
    /\ threads' = [threads EXCEPT ![t] = next]
    /\ UNCHANGED <<config, auth_method, auth_key, is_closing, deleted, close_events,
                   monitor_waits, validated, call, async_client>>

\* RM.set_authorization_key(...) before the threads make their calls.
Threads_set_authorization_key ==
    /\ Open("HTTP")
    /\ \A t \in Threads : threads[t].pc = "idle"
    /\ \E k \in {<<"keyA", None, None>>, <<None, "tokA", "refA">>, <<None, "tokA", None>>} :
         LET auth == SetAuthorizationKey(k[1], k[2], k[3])
         IN  /\ auth_method' = auth.auth_method
             /\ auth_key' = auth.auth_key
    /\ UNCHANGED <<config, threads, is_closing, deleted, close_events, monitor_waits,
                   validated, call, async_client>>

\* Thread t calls RM.send_request(method=..., params=...): lines 120-128.
Thread_send_request(t) ==
    /\ Open("HTTP")
    /\ threads[t].pc = "idle"
    /\ \E auto_refresh_session \in BOOLEAN :
         ThreadMoves(t, [threads[t] EXCEPT !.pc = "attempt",
                                           !.auto_refresh_session = auto_refresh_session])

\* Line 130, _simple_request up to self._client.request: the headers are
\* taken from the credentials stored now and the request is handed over.
Thread_attempt_send(t) ==
    /\ threads[t].pc = "attempt"
    /\ LET sr == SimpleRequest(Auth, request_fail_exceptions, ThreadRequest, HttpTimeout)
       IN  ThreadMoves(t, [threads[t] EXCEPT !.pc = "attempt_wait",
                                             !.sent = @ \o Tagged("attempt", sr.sent)])

\* The first attempt ends (lines 99-106) and send_request decides, on the
\* credentials stored now, whether to refresh (lines 131-142).
Thread_attempt_recv(t) ==
    /\ threads[t].pc = "attempt_wait"
    /\ \E out \in ThreadFirstOutcomes :
         LET r == SimpleRequest(Auth, request_fail_exceptions, ThreadRequest, out).result
             refresh == /\ r.raised
                        /\ r.error = "HTTPClientError"
                        /\ RefreshCondition(Auth, threads[t].auto_refresh_session, r)
         IN  ThreadMoves(t, [threads[t] EXCEPT !.pc = IF refresh THEN "refresh" ELSE "done",
                                               !.first = r,
                                               !.result = IF refresh THEN @ ELSE r])

\* Line 146, session_refresh line 166: the refresh token stored now is taken;
\* without one RequestParameterError is raised and caught on line 147.
Thread_refresh_prepare(t) ==
    /\ threads[t].pc = "refresh"
    /\ LET token == PrepareRefreshSession(Auth, None)
       IN  ThreadMoves(t, IF token = None
                          THEN [threads[t] EXCEPT
                                  !.pc = "retry",
                                  !.refreshed = Raised("RequestParameterError",
                                                       "'refresh_token' is not set",
                                                       NoRequest, NoneResp)]
                          ELSE [threads[t] EXCEPT !.pc = "refresh_send", !.token = token])

\* session_refresh line 167, _simple_request up to self._client.request.
Thread_refresh_send(t) ==
    /\ threads[t].pc = "refresh_send"
    /\ LET sr == SimpleRequest(Auth, request_fail_exceptions,
                               RefreshRequest(threads[t].token), HttpTimeout)
       IN  ThreadMoves(t, [threads[t] EXCEPT !.pc = "refresh_wait",
                                             !.sent = @ \o Tagged("refresh", sr.sent)])

\* The refresh request ends: a reply goes to _process_login_response (line
\* 170), which stores the new pair; an error is caught on line 147.
Thread_refresh_recv(t) ==
    /\ threads[t].pc = "refresh_wait"
    /\ \E out \in RefreshOutcomes :
         LET r == SimpleRequest(Auth, request_fail_exceptions,
                                RefreshRequest(threads[t].token), out).result
             auth == IF r.raised THEN Auth ELSE ProcessLoginResponse(Auth, r.response)
         IN  /\ threads' = [threads EXCEPT ![t] = [@ EXCEPT !.pc = "retry",
                                                            !.refreshed = r]]
             /\ auth_method' = auth.auth_method
             /\ auth_key' = auth.auth_key
    /\ UNCHANGED <<config, is_closing, deleted, close_events, monitor_waits, validated,
                   call, async_client>>

\* Line 151, _simple_request up to self._client.request.
Thread_retry_send(t) ==
    /\ threads[t].pc = "retry"
    /\ LET sr == SimpleRequest(Auth, request_fail_exceptions, ThreadRequest, HttpTimeout)
       IN  ThreadMoves(t, [threads[t] EXCEPT !.pc = "retry_wait",
                                             !.sent = @ \o Tagged("retry", sr.sent)])

\* Faulty variant: an expired-token answer to the retry starts the refresh step again
\* (once more).
Thread_retry_recv_Loops(t) ==
    /\ threads[t].pc = "retry_wait"
    /\ \E out \in RetryOutcomes :
         LET r == SimpleRequest(Auth, request_fail_exceptions, ThreadRequest, out).result
             again == /\ r.raised
                      /\ r.error = "HTTPClientError"
                      /\ RefreshCondition(Auth, threads[t].auto_refresh_session, r)
                      /\ Len(threads[t].sent) <= 3
         IN  ThreadMoves(t, [threads[t] EXCEPT !.pc = IF again THEN "refresh" ELSE "done",
                                               !.result = IF again THEN @ ELSE r])

\* The retry ends (line 151) and its outcome leaves send_request (line 153).
Thread_retry_recv(t) ==
    /\ threads[t].pc = "retry_wait"
    /\ \E out \in RetryOutcomes :
         LET r == SimpleRequest(Auth, request_fail_exceptions, ThreadRequest, out).result
         IN  ThreadMoves(t, [threads[t] EXCEPT !.pc = "done", !.result = r])

\* The steps of a send_request call that thread t has begun.
ThreadStep(t) ==
    \/ Thread_attempt_send(t)
    \/ Thread_attempt_recv(t)
    \/ Thread_refresh_prepare(t)
    \/ Thread_refresh_send(t)
    \/ Thread_refresh_recv(t)
    \/ Thread_retry_send(t)
    \/ Thread_retry_recv(t)

InitThreads ==
    /\ client_class = "HTTP"
    /\ request_fail_exceptions \in BOOLEAN
    /\ console_monitor_poll_timeout = 1
    /\ console_monitor_poll_period = 2
    /\ Constructed

NextThreads ==
    \/ Threads_set_authorization_key
    \/ \E t \in Threads : Thread_send_request(t)
    \/ \E t \in Threads : Thread_attempt_send(t)
    \/ \E t \in Threads : Thread_attempt_recv(t)
    \/ \E t \in Threads : Thread_refresh_prepare(t)
    \/ \E t \in Threads : Thread_refresh_send(t)
    \/ \E t \in Threads : Thread_refresh_recv(t)
    \/ \E t \in Threads : Thread_retry_send(t)
    \/ \E t \in Threads : Thread_retry_recv(t)

\* Each thread is scheduled again and again, and each request handed to the
\* HTTP client ends, with an answer or with its timeout: a call that has
\* begun keeps taking its steps.
SpecThreads ==
    /\ InitThreads
    /\ [][NextThreads]_vars
    /\ \A t \in Threads : WF_vars(ThreadStep(t))

(***************************************************************************)
(* Properties.  They read the record of the last operation (`call`), the   *)
(* record of the last validator call (`validated`) and the client's state. *)
(***************************************************************************)
\* The requests of the last operation that the step `by` handed to the HTTP
\* client.
SentBy(by) == {i \in 1..Len(call.sent) : call.sent[i].by = by}

\* The last operation called send_request.
Dispatched == call.invocations # <<>>

\* The first attempt of the last operation raised HTTPClientError with the
\* expired-token message.
FirstExpired ==
    /\ call.first.raised
    /\ call.first.error = "HTTPClientError"
    /\ Contains(call.first.msg, "401: Access token has expired")

\* The client held a token pair (with a refresh token) when the last
\* operation was called.
HeldTokenPair ==
    /\ call.before.auth_method = "TOKEN"
    /\ call.before.auth_key[2] # None

\* The last operation passed auto_refresh_session=True (or left the default).
AutoRefreshOn == Dispatched /\ call.invocations[1].auto_refresh_session

\* C1: a send_request call made while the client holds a token pair and
\* auto-refresh is on, whose first attempt fails with the expired-token
\* HTTPClientError, makes exactly one session_refresh call (one refresh
\* request) and exactly one retried transport call; if the server answers
\* the retry with the expired-token error again, that HTTPClientError is
\* raised to the caller and nothing more is sent.
C1_OneRefreshOneRetry ==
    (Dispatched /\ HeldTokenPair /\ AutoRefreshOn /\ FirstExpired) =>
        /\ call.refreshes = 1
        /\ call.retries = 1
        /\ Cardinality(SentBy("attempt")) = 1
        /\ Cardinality(SentBy("refresh")) = 1
        /\ Cardinality(SentBy("retry")) = 1
        /\ Len(call.sent) = 3
        /\ call.outs[3] = Http401Expired =>
             /\ call.result.raised
             /\ call.result.error = "HTTPClientError"
             /\ call.result.msg = "401: Access token has expired"

\* C1 witness: the retry of a token-pair call was answered with the
\* expired-token error again and the error reached the caller.
C1_Witness ==
    /\ Dispatched /\ HeldTokenPair /\ AutoRefreshOn /\ FirstExpired
    /\ call.outs[3] = Http401Expired
    /\ call.result.raised
    /\ call.refreshes = 1

\* C2: send_request performs the refresh-and-retry step if and only if the
\* first attempt raised the expired-token HTTPClientError, the active method
\* is the token pair, a refresh token is stored and auto-refresh was not
\* disabled; otherwise there is no refresh and no second transport call.
C2_RefreshIffAllFour ==
    Dispatched =>
        /\ (call.refreshes = 1 /\ call.retries = 1)
             <=> (FirstExpired /\ call.before.auth_method = "TOKEN"
                  /\ StoredRefreshToken(call.before) # None
                  /\ call.invocations[1].auto_refresh_session)
        /\ ~(call.refreshes = 1 /\ call.retries = 1) =>
             /\ call.refreshes = 0
             /\ call.retries = 0
             /\ SentBy("refresh") = {}
             /\ SentBy("retry") = {}
             /\ Len(call.sent) <= 1

\* C2 witness: three of the four conditions held, auto-refresh was disabled
\* by the caller, and nothing was refreshed or retried.
C2_Witness ==
    /\ call.op = "send_request"
    /\ FirstExpired /\ HeldTokenPair
    /\ ~call.invocations[1].auto_refresh_session
    /\ call.refreshes = 0
    /\ Len(call.sent) = 1

\* What the caller gets when the HTTP client answers `out` to a request that
\* was sent: the decoded body, or the typed error.
Delivered(out) ==
    CASE out = HttpSuccess -> ~call.result.raised /\ call.result.response = SuccessMap(TRUE)
      [] out = HttpRejected ->
           IF request_fail_exceptions
           THEN call.result.raised /\ call.result.error = "RequestFailedError"
                /\ call.result.response = HttpRejected.body
           ELSE ~call.result.raised /\ call.result.response = HttpRejected.body
      [] out = Http401Expired ->
           call.result.raised /\ call.result.error = "HTTPClientError"
           /\ call.result.msg = "401: Access token has expired"
      [] out = HttpRefused ->
           call.result.raised /\ call.result.error = "HTTPRequestError"
           /\ call.result.msg = "HTTP request error: [Errno 111] Connection refused"
      [] OTHER -> FALSE

\* C3: when the session refresh inside send_request raises, the error is not
\* raised to the caller: the retried transport call is made exactly once,
\* with the supplied headers or else the credential stored (which the failed
\* refresh left as it was), and the caller receives the outcome of the retry.
C3_RefreshFailureSwallowed ==
    (Dispatched /\ call.refreshes >= 1 /\ call.refreshed.raised) =>
        /\ call.retries = 1
        /\ Cardinality(SentBy("retry")) = 1
        /\ call.sent[Len(call.sent)].by = "retry"
        /\ call.sent[Len(call.sent)].request.headers =
             (IF call.invocations[1].rp.headers # <<>>
              THEN call.invocations[1].rp.headers
              ELSE BearerHeader(call.before.auth_key[1]))
        /\ call.result # call.refreshed
        /\ Delivered(call.outs[3])

\* C3 witness: the refresh raised and the retried call succeeded.
C3_Witness ==
    /\ Dispatched /\ call.refreshes = 1
    /\ call.refreshed.raised
    /\ call.refreshed.error = "HTTPClientError"
    /\ ~call.result.raised

\* C4: a first attempt that fails with anything but the expired-token
\* HTTPClientError is raised to the caller as it is: session_refresh is not
\* called and no second transport call is made.
C4_OtherErrorsPropagate ==
    (Dispatched /\ call.first.raised /\ ~FirstExpired) =>
        /\ call.result = call.first
        /\ call.refreshes = 0
        /\ call.retries = 0
        /\ SentBy("refresh") = {}
        /\ SentBy("retry") = {}
        /\ Len(call.sent) <= 1

\* C4 witness: a token-pair call with auto-refresh on failed with a 401 that
\* is not the expired-token error.
C4_Witness ==
    /\ Dispatched /\ HeldTokenPair /\ AutoRefreshOn
    /\ call.first.raised
    /\ call.first.error = "HTTPClientError"
    /\ ~FirstExpired
    /\ call.result.raised

\* The Authentication/Session Manager operations.
AuthOps ==
    {"login", "session_refresh", "session_revoke", "apikey_new", "apikey_info",
     "apikey_delete", "whoami", "api_scopes", "principal_info", "logout"}

\* The operations that accept an explicit token / api_key override.
OverrideOps == {"session_revoke", "apikey_info", "apikey_delete", "whoami", "api_scopes"}

\* C5 (as claimed): after logout() the AuthorizationState is NONE, whether
\* the logout request succeeded, returned a structured failure or raised.
C5_LogoutAlwaysClears ==
    call.op = "logout" => (auth_method = "NONE" /\ auth_key = <<>>)

PassesAutoRefreshOff ==
    \/ call.op \in {"login", "session_refresh"}
    \/ call.op \in OverrideOps /\ call.override # <<>>

C7_OverrideLeavesStateAlone ==
    (call.op \in OverrideOps /\ call.override # <<>>) =>
        /\ Len(call.sent) = 1
        /\ call.sent[1].request.headers = call.override
        /\ call.after = call.before
        /\ auth_method = call.before.auth_method
        /\ auth_key = call.before.auth_key

\* C7 witness: apikey_delete with an api_key override, called while a token
\* pair is stored, got the expired-token error; the pair is still stored.
C7_Witness ==
    /\ call.op = "apikey_delete"
    /\ call.override = ApiKeyHeader("keyX")
    /\ HeldTokenPair /\ FirstExpired
    /\ call.result.raised
    /\ auth_method = "TOKEN"
    /\ auth_key = call.before.auth_key

\* How many times close() and __del__ did `what`.
Times(what) == Cardinality({i \in 1..Len(close_events) : close_events[i] = what})

\* C8 (as claimed): over any sequence of close() calls and teardown, the
\* console monitor is stopped and the transport handle is released at most
\* once in total.
C8_TornDownOnce ==
    /\ Times("disable_wait") <= 1
    /\ Times("client_close") <= 1

\* C9: send_request with a bare method name that is not in the method table
\* raises RequestParameterError naming the method; no request is handed to
\* the HTTP client and there is no refresh and no retry.
C9_UnknownMethodNoRequest ==
    (Dispatched /\ call.invocations[1].rp.method.verb = ""
       /\ call.invocations[1].rp.method.name \notin DOMAIN MethodTable) =>
        /\ call.result.raised
        /\ call.result.error = "RequestParameterError"
        /\ Contains(call.result.msg, call.invocations[1].rp.method.name)
        /\ call.sent = <<>>
        /\ call.refreshes = 0
        /\ call.retries = 0

\* C9 witness: an unknown method was requested while a token pair is stored
\* and auto-refresh is on.
C9_Witness ==
    /\ call.op = "send_request"
    /\ call.invocations[1].rp.method = BareMethod("unknown_method")
    /\ HeldTokenPair /\ AutoRefreshOn
    /\ call.result.msg = "Unknown method 'unknown_method'"

\* The validator raised RequestFailedError with message `msg`, carrying the
\* request and the response it was given.
ValidatorRaised(msg) ==
    /\ validated.result.raised
    /\ validated.result.error = "RequestFailedError"
    /\ validated.result.msg = msg
    /\ validated.result.request = validated.request
    /\ validated.result.response = validated.response

\* The validator raised nothing and handed the response back.
ValidatorPassed ==
    /\ ~validated.result.raised
    /\ validated.result.response = validated.response

\* C10: with request_fail_exceptions enabled the validator raises
\* RequestFailedError for None and for a scalar (message "Request failed: "
\* and the repr), and for a mapping with success false (message
\* "Request failed: " and msg if present and non-empty, else
\* "(no error message)"), the error carrying the request and the response;
\* it raises nothing for a sequence, a mapping without success or a mapping
\* with success true; disabled, it never raises.
C10_Validator ==
    validated.done =>
        LET r == validated.response
        IN  /\ ~validated.enabled => ValidatorPassed
            /\ (validated.enabled /\ r.type = "none") =>
                 ValidatorRaised("Request failed: None")
            /\ (validated.enabled /\ r = IntResp(10)) =>
                 ValidatorRaised("Request failed: 10")
            /\ (validated.enabled /\ r = IntResp(0)) =>
                 ValidatorRaised("Request failed: 0")
            /\ (validated.enabled /\ r.type = "str") =>
                 ValidatorRaised("Request failed: '" \o r.str \o "'")
            /\ (validated.enabled /\ r.type = "seq") => ValidatorPassed
            /\ (validated.enabled /\ r.type = "map" /\ "success" \notin r.keys) =>
                 ValidatorPassed
            /\ (validated.enabled /\ r.type = "map" /\ "success" \in r.keys
                  /\ r.success) => ValidatorPassed
            /\ (validated.enabled /\ r.type = "map" /\ "success" \in r.keys
                  /\ ~r.success) =>
                 ValidatorRaised(IF "msg" \in r.keys /\ r.msg # ""
                                 THEN "Request failed: " \o r.msg
                                 ELSE "Request failed: (no error message)")

\* C10 witness: a failed response whose msg is present but empty was
\* rejected with the fallback message.
C10_Witness ==
    /\ validated.done /\ validated.enabled
    /\ validated.response = SuccessMsgMap(FALSE, "")
    /\ validated.result.raised
    /\ validated.result.msg = "Request failed: (no error message)"

\* A structured failure: a mapping whose success field is false.
StructuredFailure(response) ==
    IsMapping(response) /\ "success" \in response.keys /\ ~response.success

\* The last operation was a send_request of the messaging client whose
\* message the server answered with a structured failure.
ZmqAnsweredFailure ==
    /\ call.op = "ZMQ.send_request"
    /\ call.outs[1].kind = "reply"
    /\ StructuredFailure(call.outs[1].body)

\* The first attempt of the last REST operation was sent and the server
\* answered it, with a 2xx status, with a structured failure.
HttpAnsweredFailure ==
    /\ Dispatched
    /\ SentBy("attempt") # {}
    /\ call.outs[1].kind = "response"
    /\ call.outs[1].status \in 200..299
    /\ StructuredFailure(call.outs[1].body)

\* The last operation raised RequestFailedError carrying `response` if
\* request_fail_exceptions is enabled, and returned `response` if not.
FailedResponseDelivered(response) ==
    IF request_fail_exceptions
    THEN /\ call.result.raised
         /\ call.result.error = "RequestFailedError"
         /\ call.result.response = response
    ELSE /\ ~call.result.raised
         /\ call.result.response = response

\* C11: on both transports, when the server answers a request with a
\* structured failure, send_request raises RequestFailedError carrying that
\* response if request_fail_exceptions is enabled and returns the failed
\* response unchanged if it is disabled; exactly one request was sent, with
\* no session refresh and no retry.
C11_StructuredFailure ==
    /\ ZmqAnsweredFailure =>
         /\ FailedResponseDelivered(call.outs[1].body)
         /\ Len(call.sent) = 1
         /\ call.refreshes = 0 /\ call.retries = 0
    /\ HttpAnsweredFailure =>
         /\ FailedResponseDelivered(call.outs[1].body)
         /\ Len(call.sent) = 1
         /\ call.refreshes = 0 /\ call.retries = 0

\* C11 witness: the messaging client returned the rejected reply with
\* request_fail_exceptions disabled.
C11_Witness ==
    /\ ZmqAnsweredFailure
    /\ ~request_fail_exceptions
    /\ call.outs[1] = ZmqRejected
    /\ ~call.result.raised
    /\ call.result.response.msg = "request contains no item info"

\* The five error kinds the taxonomy lists.
TaxonomyKinds ==
    {"RequestFailedError", "RequestTimeoutError", "RequestParameterError",
     "HTTPRequestError", "HTTPClientError"}

\* The messaging client's send_message raised during the last operation.
ZmqTransportFailed ==
    /\ call.op = "ZMQ.send_request"
    /\ call.outs[1].kind # "reply"

\* What the HTTP client did with the last request of the last REST operation
\* whose outcome went to the caller: the retry if there was one, else the
\* first attempt.
FinalOut == IF call.retries = 1 THEN call.outs[3] ELSE call.outs[1]

\* That request failed in the transport: no answer, or a non-2xx status.
HttpTransportFailed ==
    /\ Dispatched
    /\ SentBy("attempt") # {}
    /\ \/ FinalOut.kind # "response"
       \/ FinalOut.status \notin 200..299

\* The error kind of a failed HTTP client request.
HttpErrorKind(out) ==
    CASE out.kind = "timeout" -> "RequestTimeoutError"
      [] out.kind = "connect_error" -> "HTTPRequestError"
      [] OTHER -> "HTTPClientError"

RefreshWithoutAnyToken ==
    /\ call.op = "session_refresh"
    /\ call.override = <<>>
    /\ StoredRefreshToken(call.before) = None

\* C13: session_refresh called with no refresh_token argument while no
\* refresh token is stored raises RequestParameterError, hands no request to
\* the HTTP client and leaves auth_method and auth_key as they were.
C13_RefreshNeedsToken ==
    RefreshWithoutAnyToken =>
        /\ call.result.raised
        /\ call.result.error = "RequestParameterError"
        /\ call.sent = <<>>
        /\ ~Dispatched
        /\ call.after = call.before
        /\ Auth = call.before

\* C13 witness: session_refresh() on a client that holds an API key.
C13_Witness ==
    /\ RefreshWithoutAnyToken
    /\ call.before.auth_method = "API_KEY"
    /\ call.result.error = "RequestParameterError"
    /\ auth_method = "API_KEY"

OneMethodActive(auth) ==
    \/ auth.auth_method = "NONE" /\ auth.auth_key = <<>>
    \/ /\ auth.auth_method = "API_KEY"
       /\ Len(auth.auth_key) = 1
       /\ auth.auth_key[1] # None
    \/ /\ auth.auth_method = "TOKEN"
       /\ Len(auth.auth_key) = 2
       /\ (auth.auth_key[1] # None \/ auth.auth_key[2] # None)

\* C15: in every reachable state of a REST client at most one authentication
\* method is active: auth_method and auth_key hold no credential, or an API
\* key only, or a token pair only; a login or refresh that stores a token
\* pair leaves exactly that pair, and a logout that returns leaves nothing.
C15_OneMethodActive ==
    client_class = "HTTP" =>
        /\ OneMethodActive(Auth)
        /\ OneMethodActive(call.before)
        /\ OneMethodActive(call.after)
        /\ (call.op \in {"login", "session_refresh"} /\ Auth # call.before) =>
             Auth = AuthState("TOKEN", <<call.result.response.access_token,
                                         call.result.response.refresh_token>>)
        /\ (call.op = "logout" /\ ~call.result.raised) => Auth = NoAuth

\* C15 witness: a client holding an API key logged in and now holds the
\* token pair of the reply and no API key.
C15_Witness ==
    /\ call.op = "login"
    /\ call.before = AuthState("API_KEY", <<"keyA">>)
    /\ Auth = AuthState("TOKEN", <<"tokB", "refB">>)

\* The request of the first attempt and the request of the retry, as handed
\* to the HTTP client.
AttemptRequest == call.sent[1].request
RetryRequest == call.sent[Len(call.sent)].request

\* C16: the retried transport call of a REST send_request carries the same
\* method, params, url_params, body data and timeout as the first attempt,
\* and the same headers when the caller supplied headers; it is the last
\* request sent and the caller receives its outcome, whatever it is.
C16_RetryIdentical ==
    (Dispatched /\ call.retries >= 1) =>
        /\ call.retries = 1
        /\ call.sent[1].by = "attempt"
        /\ call.sent[Len(call.sent)].by = "retry"
        /\ RetryRequest.request_method = AttemptRequest.request_method
        /\ RetryRequest.endpoint = AttemptRequest.endpoint
        /\ RetryRequest.json = AttemptRequest.json
        /\ RetryRequest.params = AttemptRequest.params
        /\ RetryRequest.data = AttemptRequest.data
        /\ RetryRequest.timeout = AttemptRequest.timeout
        /\ RetryRequest.params = call.invocations[1].rp.url_params
        /\ RetryRequest.data = call.invocations[1].rp.data
        /\ RetryRequest.timeout = call.invocations[1].rp.timeout
        /\ call.invocations[1].rp.headers # <<>> =>
             /\ RetryRequest.headers = call.invocations[1].rp.headers
             /\ AttemptRequest.headers = call.invocations[1].rp.headers
        /\ Delivered(call.outs[3])

\* C16 witness: a send_request with explicit headers, url_params, body data
\* and a timeout was retried, and the retry's structured failure went to the
\* caller.
C16_Witness ==
    /\ call.op = "send_request"
    /\ call.retries = 1
    /\ call.invocations[1].rp.headers = BearerHeader("tokX")
    /\ RetryRequest.data = <<"body", "raw">>
    /\ RetryRequest.timeout = "2.5"
    /\ RetryRequest.params = <<"option", "1">>
    /\ call.outs[3] = HttpRejected
    /\ call.result.response = HttpRejected.body

\* The poll interval close() takes the monitor's wait from: the poll timeout
\* in the messaging client, the poll period in the REST client.
PollInterval ==
    IF client_class = "ZMQ" THEN console_monitor_poll_timeout
    ELSE console_monitor_poll_period

\* C17: every close() call, on either client, sets the closing flag first,
\* then calls the console monitor's disable_wait with a timeout of 10 times
\* the poll interval (the poll timeout for the messaging client, the poll
\* period for the REST client), and closes the transport client only after
\* disable_wait has returned: no transport release comes before the monitor
\* stop of the same call.
C17_CloseOrder ==
    /\ \A i \in 1..Len(close_events) :
         close_events[i] = "close" =>
           /\ i + 3 <= Len(close_events)
           /\ close_events[i + 1] = "is_closing"
           /\ close_events[i + 2] = "disable_wait"
           /\ close_events[i + 3] = "client_close"
    /\ \A j \in 1..Len(close_events) :
         close_events[j] = "client_close" =>
           /\ j > 3
           /\ close_events[j - 1] = "disable_wait"
           /\ close_events[j - 2] = "is_closing"
           /\ close_events[j - 3] = "close"
    /\ close_events # <<>> => is_closing
    /\ Len(monitor_waits) = Times("disable_wait")
    /\ \A k \in 1..Len(monitor_waits) : monitor_waits[k] = 10 * PollInterval

\* C17 witness: a REST client whose poll period differs from its poll
\* timeout was closed; the monitor was given 10 times the poll period.
C17_Witness ==
    /\ client_class = "HTTP"
    /\ console_monitor_poll_period = 5
    /\ console_monitor_poll_timeout = 1
    /\ close_events = <<"close", "is_closing", "disable_wait", "client_close">>
    /\ monitor_waits = <<50>>
    /\ is_closing

\* C18: login and session_refresh change auth_method and auth_key only after
\* their request has returned: when the login or refresh request raises,
\* also when it is the refresh made inside send_request, the stored method,
\* access token and refresh token are what they were before the call; when
\* a login or session_refresh call did change them, its one request had
\* been sent and had returned.
C18_StateCommittedOnSuccess ==
    /\ (call.op \in {"login", "session_refresh"} /\ call.result.raised) =>
         /\ call.after = call.before
         /\ Auth = call.before
    /\ (call.op \in {"login", "session_refresh"} /\ Auth # call.before) =>
         /\ ~call.result.raised
         /\ Len(call.sent) = 1
         /\ call.outs[1].kind = "response"
    /\ (Dispatched /\ call.refreshes >= 1 /\ call.refreshed.raised
        /\ ~(call.op = "logout" /\ ~call.result.raised)) =>
         /\ call.after = call.before
         /\ Auth = call.before

\* C18 witness: the refresh inside send_request raised and the client still
\* holds the token pair it held before the call.
C18_Witness ==
    /\ Dispatched
    /\ call.refreshes = 1
    /\ call.refreshed.raised
    /\ call.before = AuthState("TOKEN", <<"tokA", "refA">>)
    /\ Auth = AuthState("TOKEN", <<"tokA", "refA">>)

\* The refresh made inside the last operation returned a token pair.
RefreshReturnedTokens ==
    /\ call.refreshes >= 1
    /\ ~call.refreshed.raised
    /\ IsMapping(call.refreshed.response)
    /\ {"access_token", "refresh_token"} \subseteq call.refreshed.response.keys

\* The credentials the client stores when the retry of the last operation
\* is made.
AuthAtRetry ==
    IF RefreshReturnedTokens
    THEN AuthState("TOKEN", <<call.refreshed.response.access_token,
                              call.refreshed.response.refresh_token>>)
    ELSE call.before

\* The headers a request of the last operation carries when it is made
\* while the client stores `auth`: the caller's headers if any were given,
\* else the credential header of `auth`.
HeadersGiven(explicit, auth) ==
    IF explicit # <<>> THEN explicit ELSE PrepareHeaders(auth)

\* C19: every request a REST operation hands to the HTTP client carries the
\* headers the caller supplied, unchanged, when the caller supplied non-empty
\* headers, and otherwise the credential header of the auth_method and
\* auth_key stored at the moment the request is made: the first attempt and
\* the refresh request those stored when the call began, the retry the
\* token pair a successful refresh has just stored, or the old credential
\* when the refresh failed.
C19_HeadersFromStateAtCall ==
    Dispatched =>
        \A i \in 1..Len(call.sent) :
            call.sent[i].request.headers =
                CASE call.sent[i].by = "attempt" ->
                       HeadersGiven(call.invocations[1].rp.headers, call.before)
                  [] call.sent[i].by = "refresh" ->
                       PrepareHeaders(call.before)
                  [] call.sent[i].by = "retry" ->
                       HeadersGiven(call.invocations[1].rp.headers, AuthAtRetry)

\* C19 witness: a call without explicit headers was retried after a
\* successful refresh; the first attempt carried the old access token and
\* the retry the new one.
C19_Witness ==
    /\ Dispatched
    /\ call.retries = 1
    /\ call.invocations[1].rp.headers = <<>>
    /\ RefreshReturnedTokens
    /\ AttemptRequest.headers = BearerHeader("tokA")
    /\ RetryRequest.headers = BearerHeader("tokB")

\* C20: a send_request of the messaging client hands exactly one message,
\* made of the method and the params only, to the messaging client, whatever
\* the outcome: there is no session refresh and no second send, and the
\* authorization state is neither used for the message nor changed.
C20_OneSendMessage ==
    call.op = "ZMQ.send_request" =>
        /\ Len(call.sent) = 1
        /\ call.sent[1].by = "send_message"
        /\ DOMAIN call.sent[1].request = {"method", "params"}
        /\ call.refreshes = 0
        /\ call.retries = 0
        /\ call.invocations = <<>>
        /\ call.after = call.before
        /\ Auth = call.before
        /\ call.outs[1].kind = "timeout" =>
             (call.result.raised /\ call.result.error = "RequestTimeoutError")

\* C20 witness: the message timed out; it was sent once and the caller got
\* RequestTimeoutError.
C20_Witness ==
    /\ call.op = "ZMQ.send_request"
    /\ call.outs[1] = ZmqTimeout
    /\ Len(call.sent) = 1
    /\ call.result.error = "RequestTimeoutError"
    /\ call.result.msg = "timeout occurred"

\* The requests thread t's call handed to the HTTP client in the step `by`.
ThreadSentBy(t, by) == {i \in 1..Len(threads[t].sent) : threads[t].sent[i].by = by}

\* The first attempt of thread t's call failed with the expired-token error.
ThreadFirstExpired(t) ==
    /\ threads[t].first.raised
    /\ threads[t].first.error = "HTTPClientError"
    /\ Contains(threads[t].first.msg, "401: Access token has expired")

\* The requests of both calls, counted over the client.
TotalSentBy(by) == Cardinality(ThreadSentBy(1, by)) + Cardinality(ThreadSentBy(2, by))
TotalSent == Len(threads[1].sent) + Len(threads[2].sent)

\* At every moment of two interleaved calls: each call has made at most one
\* refresh request and at most one retry, at most three requests in all.
ThreadsBounded ==
    /\ \A t \in Threads :
         /\ Cardinality(ThreadSentBy(t, "attempt")) <= 1
         /\ Cardinality(ThreadSentBy(t, "refresh")) <= 1
         /\ Cardinality(ThreadSentBy(t, "retry")) <= 1
         /\ Len(threads[t].sent) <= 3
         /\ ThreadSentBy(t, "retry") # {} => ThreadFirstExpired(t)
    /\ TotalSentBy("refresh") <= 2
    /\ TotalSent <= 6

\* C21: when two send_request calls on the same REST client interleave, with
\* no lock, each call makes at most one refresh and at most one retry, also
\* when both first attempts fail with the expired-token error, so the
\* client sends at most two refresh requests and at most six requests in
\* all; and each call that has begun ends.
C21_InterleavedCallsBounded ==
    /\ []ThreadsBounded
    /\ \A t \in Threads : (threads[t].pc # "idle") ~> (threads[t].pc = "done")

\* C21 witness: both first attempts failed with the expired-token error,
\* both calls refreshed and retried (six requests, two of them refresh
\* requests) and both ended; the calls did interleave: the refresh of
\* thread 1 failed, yet its retry carried the access token that the refresh
\* of thread 2 had stored in between.
C21_Witness ==
    /\ \A t \in Threads : threads[t].pc = "done" /\ ThreadFirstExpired(t)
    /\ TotalSentBy("refresh") = 2
    /\ TotalSent = 6
    /\ threads[1].refreshed.raised
    /\ threads[1].sent[1].request.headers = BearerHeader("tokA")
    /\ threads[1].sent[3].request.headers = BearerHeader("tokB")

====
